---------------------------- MODULE Spec2Model ----------------------------
(***************************************************************************)
(* Model of the Workshop-Blockchain repository:                            *)
(*   - scripts/estimate-cost.js: the deployment cost estimator (main and   *)
(*     its top-level then/catch handlers);                                 *)
(*   - the Box contract (store / retrieve) the workshop deploys.           *)
(*                                                                         *)
(* JavaScript BigInt values are arbitrary-precision integers.  They are    *)
(* modelled as sequences of decimal digits, least significant digit        *)
(* first, without high-order zeros (zero is the empty sequence), so that   *)
(* no product is limited by the model checker's integer width.  Strings    *)
(* built by the script are sequences of one-character strings until they   *)
(* are printed.                                                            *)
(***************************************************************************)
EXTENDS Integers, Sequences, FiniteSets, TLC

VARIABLES
    pc,            \* position of the script: which await it is suspended at
    factory,       \* const Box (the contract factory), once resolved
    estimatedGas,  \* const estimatedGas
    gasPrice,      \* const gasPrice = feeData.gasPrice
    totalCost,     \* const totalCost
    stdout,        \* lines written by console.log
    stderr,        \* errors written by console.error
    exitCode,      \* argument of process.exit
    error,         \* the reason main's promise is rejected with
    rpc,           \* requests issued to the node and the node's answers
    value,         \* Box._value
    events,        \* ValueChanged events emitted by Box
    calls          \* calls made to the deployed Box, with their outcome

scriptVars == <<pc, factory, estimatedGas, gasPrice, totalCost, stdout, stderr, exitCode,
                error, rpc>>
chainVars == <<value, events, calls>>
vars == <<pc, factory, estimatedGas, gasPrice, totalCost, stdout, stderr, exitCode,
          error, rpc, value, events, calls>>

(***************************************************************************)
(* Bounds of the model.                                                    *)
(***************************************************************************)
MaxGasExp == 5
MaxPriceExp == 18
MaxValue == 2
MaxCalls == 4

(***************************************************************************)
(* BigInt arithmetic.                                                      *)
(***************************************************************************)
\* Drop high-order zeros
Normalize(a) ==
    LET nz == {i \in DOMAIN a : a[i] # 0}
    IN  IF nz = {} THEN <<>>
        ELSE SubSeq(a, 1, CHOOSE i \in nz : \A j \in nz : j <= i)

RECURSIVE NatToBig(_)
NatToBig(n) == IF n = 0 THEN <<>> ELSE <<n % 10>> \o NatToBig(n \div 10)

\* a * 10^e
Shift(a, e) == IF a = <<>> THEN a ELSE [i \in 1..e |-> 0] \o a

Digit(a, i) == IF i \in DOMAIN a THEN a[i] ELSE 0

\* The sum of the digit products a[i] * b[j] with i + j = k + 1
ColumnSum(a, b, k) ==
    LET sum[i \in 0..Len(a)] == IF i = 0 THEN 0 ELSE sum[i - 1] + a[i] * Digit(b, k + 1 - i)
    IN  sum[Len(a)]

\* The exact product of two BigInts: column sums, then carries
BigMul(a, b) ==
    IF a = <<>> \/ b = <<>> THEN <<>>
    ELSE LET n == Len(a) + Len(b)
             col == [k \in 1..n |-> ColumnSum(a, b, k)]
             carry[k \in 0..n] == IF k = 0 THEN 0 ELSE (col[k] + carry[k - 1]) \div 10
         IN  Normalize([k \in 1..n |-> (col[k] + carry[k - 1]) % 10])

\* A product computed in double-precision Numbers instead of BigInts keeps
\* only the leading significant digits of the exact product.
MultiplyAsNumber(a, b) ==
    LET p == BigMul(a, b)
    IN  IF Len(p) <= 16 THEN p
        ELSE [i \in 1..Len(p) |-> IF i <= Len(p) - 16 THEN 0 ELSE p[i]]

\* estimatedGas * gasPrice
Multiply(a, b) == BigMul(a, b)

(***************************************************************************)
(* Strings.                                                                *)
(***************************************************************************)
Str(cs) ==
    LET str[i \in 0..Len(cs)] == IF i = 0 THEN "" ELSE str[i - 1] \o cs[i]
    IN  str[Len(cs)]

DigitChar(d) == <<"0", "1", "2", "3", "4", "5", "6", "7", "8", "9">>[d + 1]

\* BigInt.prototype.toString(): decimal, most significant digit first
ToStringChars(a) ==
    IF a = <<>> THEN <<"0">>
    ELSE [i \in 1..Len(a) |-> DigitChar(a[Len(a) + 1 - i])]

(***************************************************************************)
(* ethers.formatUnits / ethers.formatEther, as the script calls them.      *)
(* The unit name selects the number of decimals (three per position in the *)
(* list of unit names); the value is written in decimal, padded with       *)
(* zeros up to a whole digit, the point is inserted, and then the whole    *)
(* part and the decimal part are trimmed, each keeping at least one digit. *)
(***************************************************************************)
UnitNames == <<"wei", "kwei", "mwei", "gwei", "szabo", "finney", "ether">>

UnitDecimals(unit) == 3 * ((CHOOSE i \in 1..Len(UnitNames) : UnitNames[i] = unit) - 1)

Zeros == <<"0", "0", "0", "0">>

\* while (str.length <= decimals) { str = Zeros + str; }
RECURSIVE PadWhole(_, _)
PadWhole(s, decimals) == IF Len(s) <= decimals THEN PadWhole(Zeros \o s, decimals) ELSE s

InsertPoint(s, decimals) ==
    LET index == Len(s) - decimals
    IN  SubSeq(s, 1, index) \o <<".">> \o SubSeq(s, index + 1, Len(s))

\* while (str[0] === "0" && str[1] !== ".") { str = str.substring(1); }
RECURSIVE TrimWholeFrom(_, _)
TrimWholeFrom(s, i) ==
    IF s[i] = "0" /\ s[i + 1] # "." THEN TrimWholeFrom(s, i + 1) ELSE SubSeq(s, i, Len(s))

TrimWhole(s) == TrimWholeFrom(s, 1)

\* while (str[str.length - 1] === "0" && str[str.length - 2] !== ".") { drop the last }
RECURSIVE TrimDecimalTo(_, _)
TrimDecimalTo(s, n) ==
    IF s[n] = "0" /\ s[n - 1] # "." THEN TrimDecimalTo(s, n - 1) ELSE SubSeq(s, 1, n)

TrimDecimal(s) == TrimDecimalTo(s, Len(s))

FixedToChars(val, decimals) ==
    IF decimals = 0 THEN ToStringChars(val)
    ELSE TrimDecimal(TrimWhole(InsertPoint(PadWhole(ToStringChars(val), decimals), decimals)))

\* A formatter that drops a decimal part that is zero ("1" instead of "1.0").
FormatUnitsNoPoint(val, unit) ==
    LET s == FixedToChars(val, UnitDecimals(unit))
    IN  IF Len(s) >= 2 /\ s[Len(s)] = "0" /\ s[Len(s) - 1] = "."
        THEN SubSeq(s, 1, Len(s) - 2) ELSE s

FormatUnits(val, unit) == FixedToChars(val, UnitDecimals(unit))

FormatEther(wei) == FormatUnits(wei, "ether")

(***************************************************************************)
(* The values the node may answer with.                                    *)
(***************************************************************************)
NotSet == <<-1>>     \* a const not yet initialised
Null == <<-2>>       \* feeData.gasPrice is null when the node reports no gas price

GasMantissas == {0, 1, 5, 21, 99999989}
PriceMantissas == {0, 1, 2, 2147483629}

GasEstimates == {Shift(NatToBig(m), e) : m \in GasMantissas, e \in 0..MaxGasExp}
GasPrices == {Shift(NatToBig(m), e) : m \in PriceMantissas, e \in 0..MaxPriceExp}

Request(op) == [op |-> op, kind |-> "request", val |-> <<>>]
Result(op, v) == [op |-> op, kind |-> "result", val |-> v]
Failure(op) == [op |-> op, kind |-> "error", val |-> <<>>]

(***************************************************************************)
(* The report lines.                                                       *)
(***************************************************************************)
GasLine(g) == "Estimated gas: " \o Str(ToStringChars(g))
PriceLine(p) == "Current gas price: " \o Str(FormatUnits(p, "gwei")) \o " gwei"
CostLine(t) == "Estimated deployment cost: " \o Str(FormatEther(t)) \o " ETH"

(***************************************************************************)
(* scripts/estimate-cost.js.  One action per continuation of main: the     *)
(* code that runs from one await to the next.                              *)
(***************************************************************************)
Init ==
    /\ pc = "start"
    /\ factory = "none"
    /\ estimatedGas = NotSet
    /\ gasPrice = NotSet
    /\ totalCost = NotSet
    /\ stdout = <<>>
    /\ stderr = <<>>
    /\ exitCode = -1
    /\ error = "none"
    /\ rpc = <<>>
    /\ value = 0
    /\ events = <<>>
    /\ calls = <<>>

\* main() is called: it asks for the contract factory and awaits it
Start ==
    /\ pc = "start"
    /\ pc' = "awaitFactory"
    /\ UNCHANGED <<factory, estimatedGas, gasPrice, totalCost, stdout, stderr, exitCode,
                   error, rpc, chainVars>>

\* A script that deploys instead of estimating: it submits a signed transaction.
FactoryResolvedDeploys ==
    /\ pc = "awaitFactory"
    /\ factory' = "Box"
    /\ rpc' = rpc \o <<Request("sendTransaction"), Request("estimateGas")>>
    /\ pc' = "awaitEstimate"
    /\ UNCHANGED <<estimatedGas, gasPrice, totalCost, stdout, stderr, exitCode, error,
                   chainVars>>

\* A script that issues both node calls at once (Promise.all).
FactoryResolvedParallel ==
    /\ pc = "awaitFactory"
    /\ factory' = "Box"
    /\ rpc' = rpc \o <<Request("estimateGas"), Request("getFeeData")>>
    /\ pc' = "awaitEstimate"
    /\ UNCHANGED <<estimatedGas, gasPrice, totalCost, stdout, stderr, exitCode, error,
                   chainVars>>

\* getContractFactory resolves: provider.estimateGas(Box.getDeployTransaction()) is issued
FactoryResolved ==
    /\ pc = "awaitFactory"
    /\ factory' = "Box"
    /\ rpc' = Append(rpc, Request("estimateGas"))
    /\ pc' = "awaitEstimate"
    /\ UNCHANGED <<estimatedGas, gasPrice, totalCost, stdout, stderr, exitCode, error,
                   chainVars>>

\* getContractFactory rejects (no such artifact): main's promise is rejected
FactoryRejected ==
    /\ pc = "awaitFactory"
    /\ error' = "getContractFactory"
    /\ pc' = "rejected"
    /\ UNCHANGED <<factory, estimatedGas, gasPrice, totalCost, stdout, stderr, exitCode,
                   rpc, chainVars>>

\* estimateGas resolves: the estimate is printed and provider.getFeeData() is issued
EstimateGasResolved ==
    /\ pc = "awaitEstimate"
    /\ \E g \in GasEstimates :
        /\ estimatedGas' = g
        /\ stdout' = Append(stdout, GasLine(g))
        /\ rpc' = rpc \o <<Result("estimateGas", g), Request("getFeeData")>>
    /\ pc' = "awaitFee"
    /\ UNCHANGED <<factory, gasPrice, totalCost, stderr, exitCode, error, chainVars>>

\* An estimator that defaults a rejected estimate to zero and goes on.
EstimateGasRejectedDefaulted ==
    /\ pc = "awaitEstimate"
    /\ estimatedGas' = <<>>
    /\ stdout' = Append(stdout, GasLine(<<>>))
    /\ rpc' = rpc \o <<Failure("estimateGas"), Request("getFeeData")>>
    /\ pc' = "awaitFee"
    /\ UNCHANGED <<factory, gasPrice, totalCost, stderr, exitCode, error, chainVars>>

\* estimateGas rejects (the node is unreachable, or the deployment would revert)
EstimateGasRejected ==
    /\ pc = "awaitEstimate"
    /\ rpc' = Append(rpc, Failure("estimateGas"))
    /\ error' = "estimateGas"
    /\ pc' = "rejected"
    /\ UNCHANGED <<factory, estimatedGas, gasPrice, totalCost, stdout, stderr, exitCode,
                   chainVars>>

\* A continuation that prints the cost before the price.
FeeDataResolvedCostFirst ==
    /\ pc = "awaitFee"
    /\ \E p \in GasPrices :
        /\ gasPrice' = p
        /\ rpc' = Append(rpc, Result("getFeeData", p))
        /\ totalCost' = Multiply(estimatedGas, p)
        /\ stdout' = stdout \o <<CostLine(Multiply(estimatedGas, p)), PriceLine(p)>>
        /\ pc' = "resolved"
        /\ UNCHANGED error
    /\ UNCHANGED <<factory, estimatedGas, stderr, exitCode, chainVars>>

\* getFeeData resolves: the price is formatted and printed, the cost computed, formatted
\* and printed.  formatUnits throws on a null gasPrice (it is no BigNumberish).
FeeDataResolved ==
    /\ pc = "awaitFee"
    /\ \E p \in GasPrices \cup {Null} :
        /\ gasPrice' = p
        /\ rpc' = Append(rpc, Result("getFeeData", p))
        /\ IF p = Null
           THEN /\ error' = "formatUnits"
                /\ pc' = "rejected"
                /\ UNCHANGED <<totalCost, stdout>>
           ELSE /\ totalCost' = Multiply(estimatedGas, p)
                /\ stdout' = stdout \o <<PriceLine(p), CostLine(Multiply(estimatedGas, p))>>
                /\ pc' = "resolved"
                /\ UNCHANGED error
    /\ UNCHANGED <<factory, estimatedGas, stderr, exitCode, chainVars>>

\* An estimator that falls back to a zero price when the fee data cannot be fetched.
FeeDataRejectedZeroPrice ==
    /\ pc = "awaitFee"
    /\ gasPrice' = <<>>
    /\ rpc' = Append(rpc, Failure("getFeeData"))
    /\ totalCost' = Multiply(estimatedGas, <<>>)
    /\ stdout' = stdout \o <<PriceLine(<<>>), CostLine(Multiply(estimatedGas, <<>>))>>
    /\ pc' = "resolved"
    /\ UNCHANGED <<factory, estimatedGas, stderr, exitCode, error, chainVars>>

\* getFeeData rejects
FeeDataRejected ==
    /\ pc = "awaitFee"
    /\ rpc' = Append(rpc, Failure("getFeeData"))
    /\ error' = "getFeeData"
    /\ pc' = "rejected"
    /\ UNCHANGED <<factory, estimatedGas, gasPrice, totalCost, stdout, stderr, exitCode,
                   chainVars>>

\* .then(() => process.exit(0))
OnFulfilled ==
    /\ pc = "resolved"
    /\ exitCode' = 0
    /\ pc' = "exited"
    /\ UNCHANGED <<factory, estimatedGas, gasPrice, totalCost, stdout, stderr, error, rpc,
                   chainVars>>

\* A handler that logs the error and lets the process end normally.
OnRejectedNoExitCode ==
    /\ pc = "rejected"
    /\ stderr' = Append(stderr, error)
    /\ exitCode' = 0
    /\ pc' = "exited"
    /\ UNCHANGED <<factory, estimatedGas, gasPrice, totalCost, stdout, error, rpc,
                   chainVars>>

\* .catch((error) => { console.error(error); process.exit(1); })
OnRejected ==
    /\ pc = "rejected"
    /\ stderr' = Append(stderr, error)
    /\ exitCode' = 1
    /\ pc' = "exited"
    /\ UNCHANGED <<factory, estimatedGas, gasPrice, totalCost, stdout, error, rpc,
                   chainVars>>

Next ==
    \/ Start
    \/ FactoryResolved
    \/ FactoryRejected
    \/ EstimateGasResolved
    \/ EstimateGasRejected
    \/ FeeDataResolved
    \/ FeeDataRejected
    \/ OnFulfilled
    \/ OnRejected

Spec == Init /\ [][Next]_vars

\* A settled promise always runs its handler: once main's promise is fulfilled or
\* rejected, the then / catch callback is run by the event loop.
LiveSpec == Spec /\ WF_vars(OnFulfilled) /\ WF_vars(OnRejected)

(***************************************************************************)
(* The Box contract, called through a console session (store, retrieve).   *)
(* A uint256 argument is drawn from 0..MaxValue; a session makes at most   *)
(* MaxCalls calls.                                                         *)
(***************************************************************************)
RevertReason == "Value must be greater than 0"

Call(fn, arg, status, ret) == [fn |-> fn, arg |-> arg, status |-> status, ret |-> ret]

\* A store without the require: any argument is written.
StoreUnchecked(v) ==
    /\ Len(calls) < MaxCalls
    /\ value' = v
    /\ events' = Append(events, v)
    /\ calls' = Append(calls, Call("store", v, "ok", 0))
    /\ UNCHANGED scriptVars

\* A store that emits the event but does not write _value.
StoreNoWrite(v) ==
    /\ Len(calls) < MaxCalls
    /\ IF v > 0
       THEN /\ events' = Append(events, v)
            /\ calls' = Append(calls, Call("store", v, "ok", 0))
            /\ UNCHANGED value
       ELSE /\ calls' = Append(calls, Call("store", v, RevertReason, 0))
            /\ UNCHANGED <<value, events>>
    /\ UNCHANGED scriptVars

\* function store(uint256 value)
Store(v) ==
    /\ Len(calls) < MaxCalls
    /\ IF v > 0
       THEN /\ value' = v
            /\ events' = Append(events, v)
            /\ calls' = Append(calls, Call("store", v, "ok", 0))
       ELSE /\ calls' = Append(calls, Call("store", v, RevertReason, 0))
            /\ UNCHANGED <<value, events>>
    /\ UNCHANGED scriptVars

\* function retrieve() view returns (uint256)
Retrieve ==
    /\ Len(calls) < MaxCalls
    /\ calls' = Append(calls, Call("retrieve", 0, "ok", value))
    /\ UNCHANGED <<value, events>>
    /\ UNCHANGED scriptVars

BoxNext ==
    \/ \E v \in 0..MaxValue : Store(v)
    \/ Retrieve

BoxSpec == Init /\ [][BoxNext]_vars

(***************************************************************************)
(* Vocabulary of the properties.                                           *)
(***************************************************************************)
Has(kind, op) == \E i \in DOMAIN rpc : rpc[i].kind = kind /\ rpc[i].op = op

Count(kind, op) == Cardinality({i \in DOMAIN rpc : rpc[i].kind = kind /\ rpc[i].op = op})

Position(kind, op) == CHOOSE i \in DOMAIN rpc : rpc[i].kind = kind /\ rpc[i].op = op

Exited == pc = "exited"

Succeeded == pc = "resolved" \/ (pc = "exited" /\ exitCode = 0)

IsBigInt(a) ==
    /\ \A i \in DOMAIN a : a[i] \in 0..9
    /\ a # <<>> => a[Len(a)] # 0

\* The value of a BigInt modulo m (m small enough for the model checker's integers)
BigMod(a, m) ==
    LET r[i \in 0..Len(a)] == IF i = 0 THEN 0 ELSE (a[Len(a) + 1 - i] + 10 * r[i - 1]) % m
    IN  r[Len(a)]

\* The value of a BigInt of at most nine digits
BigToNat(a) ==
    LET r[i \in 0..Len(a)] == IF i = 0 THEN 0 ELSE a[Len(a) + 1 - i] + 10 * r[i - 1]
    IN  r[Len(a)]

\* Ten primes below 46341: the product of two residues fits the model checker's
\* integers, and the product of the ten exceeds 10^46, so two naturals of at most
\* 46 digits with the same residues are equal.
Moduli == {46337, 46327, 46309, 46307, 46301, 46279, 46273, 46271, 46261, 46237}

Big(m, e) == Shift(NatToBig(m), e)

\* The inverse of the display conversion: "w.f" read back as w * 10^decimals + f
ParseUnits(s, decimals) ==
    LET dot == IF \E i \in DOMAIN s : s[i] = "." THEN CHOOSE i \in DOMAIN s : s[i] = "."
               ELSE Len(s) + 1
        whole == SubSeq(s, 1, dot - 1)
        frac == SubSeq(s, dot + 1, Len(s))
        digit(c) == CHOOSE d \in 0..9 : DigitChar(d) = c
        all == whole \o frac \o [i \in 1..(decimals - Len(frac)) |-> "0"]
    IN  Normalize([i \in 1..Len(all) |-> digit(all[Len(all) + 1 - i])])

(***************************************************************************)
(* C1: if the estimateGas call is rejected, getFeeData is never issued,    *)
(* no total cost is computed, none of the three report lines is printed    *)
(* and the process exits with a non-zero status.                           *)
(***************************************************************************)
C1_Aborted ==
    Has("error", "estimateGas") =>
        /\ Count("request", "getFeeData") = 0
        /\ gasPrice = NotSet
        /\ totalCost = NotSet
        /\ stdout = <<>>
        /\ pc \in {"rejected", "exited"}
        /\ exitCode # 0
        /\ Exited => exitCode = 1

C1_EstimateRejectedAborts ==
    /\ []C1_Aborted
    /\ Has("error", "estimateGas") ~> (Exited /\ exitCode = 1)

C1_Witness == Has("error", "estimateGas") /\ Exited /\ exitCode = 1

(***************************************************************************)
(* C2: if estimateGas succeeds and getFeeData then fails, the run aborts:  *)
(* no total cost is computed or printed from the estimate (only the        *)
(* estimate line was printed), no second getFeeData call is made and the   *)
(* process exits with a non-zero status.                                   *)
(***************************************************************************)
C2_Aborted ==
    (Has("result", "estimateGas") /\ Has("error", "getFeeData")) =>
        /\ totalCost = NotSet
        /\ gasPrice = NotSet
        /\ stdout = <<GasLine(estimatedGas)>>
        /\ Count("request", "getFeeData") = 1
        /\ pc \in {"rejected", "exited"}
        /\ exitCode # 0
        /\ Exited => exitCode = 1

C2_FeeDataRejectedAborts ==
    /\ []C2_Aborted
    /\ (Has("result", "estimateGas") /\ Has("error", "getFeeData")) ~> (Exited /\ exitCode = 1)

C2_Witness ==
    /\ Has("result", "estimateGas")
    /\ Has("error", "getFeeData")
    /\ estimatedGas = Big(5, 5)
    /\ Exited

(***************************************************************************)
(* C3: the total cost equals estimatedGas * gasPrice exactly: it is a      *)
(* canonical natural of at most 46 digits with the residues of the product *)
(* modulo ten primes whose product exceeds 10^46; for small operands it is *)
(* the integer product; an estimate of 0 gives 0 for every price; 500000   *)
(* at 20000000000 gives 10000000000000000.                                 *)
(***************************************************************************)
C3_TotalCostIsExactProduct ==
    totalCost # NotSet =>
        /\ IsBigInt(estimatedGas) /\ IsBigInt(gasPrice) /\ IsBigInt(totalCost)
        /\ Len(totalCost) <= Len(estimatedGas) + Len(gasPrice)
        /\ Len(totalCost) <= 46
        /\ \A m \in Moduli :
              BigMod(totalCost, m) = (BigMod(estimatedGas, m) * BigMod(gasPrice, m)) % m
        /\ (Len(estimatedGas) <= 4 /\ Len(gasPrice) <= 4) =>
              BigToNat(totalCost) = BigToNat(estimatedGas) * BigToNat(gasPrice)
        /\ estimatedGas = <<>> => totalCost = <<>>
        /\ (estimatedGas = NatToBig(500000) /\ gasPrice = Big(2, 10)) =>
              Str(ToStringChars(totalCost)) = "10000000000000000"

C3_Witness ==
    /\ totalCost # NotSet
    /\ estimatedGas = NatToBig(500000)
    /\ Str(ToStringChars(gasPrice)) = "20000000000"

(***************************************************************************)
(* C4 as stated: converting 10^18 smallest units prints exactly "1" and    *)
(* converting 0 prints exactly "0".                                        *)
(***************************************************************************)
C4_PrintsBareInteger ==
    Len(stdout) = 3 =>
        /\ totalCost = Big(1, 18) => stdout[3] = "Estimated deployment cost: 1 ETH"
        /\ totalCost = <<>> => stdout[3] = "Estimated deployment cost: 0 ETH"

(***************************************************************************)
(* C4 amended: the printed cost is a function of the total alone, the      *)
(* decimal rendering of total / 10^18 with at least one decimal digit: it  *)
(* reads back as the total, 10^18 prints exactly "1.0" and 0 prints        *)
(* exactly "0.0" (so an estimate of 0 prints "0.0" whatever the price).    *)
(***************************************************************************)
C4_DisplayConversion ==
    Len(stdout) = 3 =>
        /\ stdout[3] = "Estimated deployment cost: " \o Str(FormatEther(totalCost)) \o " ETH"
        /\ ParseUnits(FormatEther(totalCost), 18) = totalCost
        /\ \E i \in 2..(Len(FormatEther(totalCost)) - 1) : FormatEther(totalCost)[i] = "."
        /\ totalCost = Big(1, 18) => stdout[3] = "Estimated deployment cost: 1.0 ETH"
        /\ totalCost = <<>> => stdout[3] = "Estimated deployment cost: 0.0 ETH"
        /\ estimatedGas = <<>> => stdout[3] = "Estimated deployment cost: 0.0 ETH"

C4_Witness == Len(stdout) = 3 /\ totalCost = Big(1, 18) /\ estimatedGas = Big(5, 1)

(***************************************************************************)
(* C5: a run that has ended has exit code 0 exactly when the factory       *)
(* lookup, the estimateGas call, the getFeeData call and the formatting    *)
(* and printing all completed, and exit code 1, with the error written to  *)
(* the error stream, exactly when one of them threw; once something has    *)
(* thrown the script only goes on to the top-level handler and the exit.   *)
(***************************************************************************)
AllCompleted ==
    /\ factory = "Box"
    /\ Has("result", "estimateGas")
    /\ Has("result", "getFeeData")
    /\ gasPrice # Null
    /\ Len(stdout) = 3

Threw ==
    \/ (factory = "none" /\ pc \notin {"start", "awaitFactory"})
    \/ Has("error", "estimateGas")
    \/ Has("error", "getFeeData")
    \/ gasPrice = Null

C5_ExitCodeReflectsOutcome ==
    /\ exitCode \in {-1, 0, 1}
    /\ ~Exited => exitCode = -1 /\ stderr = <<>>
    /\ Exited => /\ exitCode \in {0, 1}
                 /\ exitCode = 0 <=> AllCompleted
                 /\ exitCode = 1 <=> Threw
                 /\ exitCode = 0 => stderr = <<>>
                 /\ exitCode = 1 => Len(stderr) = 1 /\ stderr[1] # "none"
    /\ Threw => pc \in {"rejected", "exited"} /\ ~AllCompleted

C5_Witness == Exited /\ exitCode = 1 /\ Has("error", "getFeeData") /\ Len(stderr) = 1

(***************************************************************************)
(* C6: the node calls are sequential, in the order estimateGas, then       *)
(* getFeeData, then the combination: each call is issued at most once,     *)
(* getFeeData only after estimateGas has returned, the total is computed   *)
(* only after both have returned, from the two values returned.            *)
(***************************************************************************)
C6_SequentialOrder ==
    /\ Count("request", "estimateGas") <= 1
    /\ Count("request", "getFeeData") <= 1
    /\ Count("result", "estimateGas") + Count("error", "estimateGas") <= 1
    /\ Count("result", "getFeeData") + Count("error", "getFeeData") <= 1
    /\ Has("request", "getFeeData") =>
          /\ Has("result", "estimateGas")
          /\ Position("result", "estimateGas") < Position("request", "getFeeData")
          /\ Position("request", "estimateGas") < Position("result", "estimateGas")
    /\ totalCost # NotSet =>
          /\ rpc = <<Request("estimateGas"), Result("estimateGas", estimatedGas),
                     Request("getFeeData"), Result("getFeeData", gasPrice)>>
          /\ totalCost = BigMul(rpc[2].val, rpc[4].val)

C6_Witness ==
    /\ totalCost # NotSet
    /\ Len(rpc) = 4
    /\ rpc[2].val = NatToBig(21)
    /\ rpc[4].val = Big(2147483629, 3)

(***************************************************************************)
(* C7: a successful run prints exactly three lines, once each, in the      *)
(* order estimate, price (in gwei), cost (in ETH); a run in which a node   *)
(* call failed prints at most the estimate line, never the cost line.      *)
(* For 500000 units at 20 gwei the lines are those of the worked example.  *)
(***************************************************************************)
C7_ReportLines ==
    /\ Succeeded =>
          /\ stdout = <<GasLine(estimatedGas), PriceLine(gasPrice), CostLine(totalCost)>>
          /\ (estimatedGas = NatToBig(500000) /\ gasPrice = Big(2, 10)) =>
                stdout = <<"Estimated gas: 500000",
                           "Current gas price: 20.0 gwei",
                           "Estimated deployment cost: 0.01 ETH">>
    /\ Has("error", "estimateGas") => stdout = <<>>
    /\ Has("error", "getFeeData") => stdout = <<GasLine(estimatedGas)>>
    /\ Len(stdout) = 3 => Succeeded

C7_Witness ==
    /\ Exited
    /\ exitCode = 0
    /\ stdout = <<"Estimated gas: 500000",
                  "Current gas price: 20.0 gwei",
                  "Estimated deployment cost: 0.01 ETH">>

(***************************************************************************)
(* C8: every step of the script leaves the chain state (the Box's value,   *)
(* its events, the calls made to it) unchanged and issues only read-only   *)
(* requests (estimateGas, getFeeData): no transaction is submitted.        *)
(***************************************************************************)
ReadOnlyRequests == {"estimateGas", "getFeeData"}

C8_ScriptIsReadOnly ==
    [][/\ UNCHANGED chainVars
       /\ \A i \in DOMAIN rpc' : rpc'[i].op \in ReadOnlyRequests]_vars

C8_Witness ==
    /\ Exited
    /\ exitCode = 0
    /\ Has("request", "estimateGas")
    /\ Has("request", "getFeeData")
    /\ chainVars = <<0, <<>>, <<>>>>

(***************************************************************************)
(* C9: store(0) reverts with "Value must be greater than 0", leaves the    *)
(* stored value as it was and emits no event; store(v) with v > 0          *)
(* succeeds and sets the stored value to v.                                *)
(***************************************************************************)
StoreStep == Len(calls') = Len(calls) + 1 /\ calls'[Len(calls')].fn = "store"

RetrieveStep == Len(calls') = Len(calls) + 1 /\ calls'[Len(calls')].fn = "retrieve"

C9_StoreValidates ==
    [][StoreStep =>
          LET c == calls'[Len(calls')]
          IN  IF c.arg = 0
              THEN c.status = "Value must be greater than 0"
                   /\ value' = value /\ events' = events
              ELSE c.status = "ok" /\ value' = c.arg]_vars

C9_Witness ==
    /\ Len(calls) >= 2
    /\ calls[1] = Call("store", 2, "ok", 0)
    /\ calls[2] = Call("store", 0, "Value must be greater than 0", 0)
    /\ value = 2
    /\ events = <<2>>

(***************************************************************************)
(* C10: retrieve returns the argument of the most recent store with v > 0, *)
(* or 0 if there was none; retrieve does not change the stored value; and  *)
(* once the stored value is not 0 it is never 0 again.                     *)
(***************************************************************************)
RECURSIVE LastStored(_, _)
LastStored(log, n) ==
    IF n = 0 THEN 0
    ELSE IF log[n].fn = "store" /\ log[n].arg > 0 THEN log[n].arg
    ELSE LastStored(log, n - 1)

C10_RetrieveReturnsLastStored ==
    [][/\ RetrieveStep =>
             /\ calls'[Len(calls')].ret = LastStored(calls, Len(calls))
             /\ calls'[Len(calls')].status = "ok"
             /\ value' = value
       /\ value # 0 => value' # 0
       /\ (\E i \in DOMAIN calls' : calls'[i].fn = "store" /\ calls'[i].arg > 0) => value' # 0]_vars

C10_Witness ==
    /\ Len(calls) = 4
    /\ calls[1].fn = "store" /\ calls[1].arg = 1
    /\ calls[2].fn = "store" /\ calls[2].arg = 2
    /\ calls[3].fn = "store" /\ calls[3].arg = 0
    /\ calls[4] = Call("retrieve", 0, "ok", 2)

=============================================================================
